---------------------------- MODULE Spec2Model ----------------------------
(***************************************************************************)
(* Model of the generated controller fsm_12B (src/fsm_12B_ert_rtw) and of  *)
(* the way its harnesses drive it.  The persistent record DW is one        *)
(* variable, rtDW; one Step is one call of fsm_12B_step made by            *)
(* rt_OneStep with freshly sampled inputs.  The real_T state signals only  *)
(* ever hold the constants 0.0 .. 3.0 and are modelled as integers.        *)
(***************************************************************************)
EXTENDS Integers, Sequences, FiniteSets, TLC

VARIABLES
    rtDW,        \* the DW record: block signals and unit-delay states
    rtU,         \* the four inputs handed to the last call of fsm_12B_step
    pre,         \* rtDW as it was when the last call of fsm_12B_step began
    pullup,      \* value of the parameter rtY_pullup when fsm_12B_step returned
    rtY_pullup,  \* the caller's static output variable
    pc,          \* "start": storage zeroed; "ready": initialized; "stepped"
    pIp,         \* the Fg333saCheck structure of the frame validator
    pIpOld,      \* pIp as it was when the last call of Fg333saCheckFun began
    fgCalls      \* number of calls of Fg333saCheckFun made so far

vars == <<rtDW, rtU, pre, pullup, rtY_pullup, pc, pIp, pIpOld, fgCalls>>

fsmVars == <<rtDW, rtU, pre, pullup, rtY_pullup, pc>>

fgVars == <<pIp, pIpOld, fgCalls>>

(***************************************************************************)
(* State encodings: the constants the generated code writes and compares.  *)
(***************************************************************************)
MGR_TRANSITION == 0
MGR_NOMINAL == 1
MGR_MANEUVER == 2
MGR_STANDBY == 3

SEN_NOMINAL == 0
SEN_TRANSITION == 1
SEN_FAULT == 2

ManagerStates == {MGR_TRANSITION, MGR_NOMINAL, MGR_MANEUVER, MGR_STANDBY}
SensorStates == {SEN_NOMINAL, SEN_TRANSITION, SEN_FAULT}

\* boolean_T Merge_p[3]; C index i is element i + 1 here.
Flags == [1..3 -> BOOLEAN]

Inputs == [standby : BOOLEAN, apfail : BOOLEAN, supported : BOOLEAN, limits : BOOLEAN]

\* static DW rtDW: static storage is zero-initialized.
ZeroDW ==
    [Merge |-> 0, Merge_g |-> 0, UnitDelay_DSTATE |-> 0, UnitDelay1_DSTATE |-> 0,
     Merge_p |-> <<FALSE, FALSE, FALSE>>, UnitDelay2_DSTATE |-> FALSE]

\* static boolean_T rtU_standby, rtU_apfail, rtU_supported, rtU_limits.
ZeroU == [standby |-> FALSE, apfail |-> FALSE, supported |-> FALSE, limits |-> FALSE]

(***************************************************************************)
(* Faulty variants of the Manager ladder.  StandbyOrder tests standby      *)
(* before apfail in the Standby branch; LiveLimits lets the Nominal branch *)
(* react to the limits input of the same cycle.                            *)
(***************************************************************************)
ManagerActions_StandbyOrder(dw, u) ==
    IF dw.UnitDelay_DSTATE = 0 THEN
        IF u.standby THEN 3
        ELSE IF u.supported /\ dw.UnitDelay2_DSTATE THEN 1
        ELSE dw.UnitDelay_DSTATE
    ELSE IF dw.UnitDelay_DSTATE = 1 THEN
        IF u.standby THEN 3
        ELSE IF ~dw.UnitDelay2_DSTATE THEN 2
        ELSE 1
    ELSE IF dw.UnitDelay_DSTATE = 2 THEN
        IF u.standby /\ dw.UnitDelay2_DSTATE THEN 3
        ELSE IF u.supported /\ dw.UnitDelay2_DSTATE THEN 0
        ELSE 2
    ELSE IF dw.UnitDelay_DSTATE = 3 THEN
        IF ~u.standby THEN 0
        ELSE IF u.apfail THEN 2
        ELSE 3
    ELSE dw.Merge

ManagerActions_LiveLimits(dw, u) ==
    IF dw.UnitDelay_DSTATE = 0 THEN
        IF u.standby THEN 3
        ELSE IF u.supported /\ dw.UnitDelay2_DSTATE THEN 1
        ELSE dw.UnitDelay_DSTATE
    ELSE IF dw.UnitDelay_DSTATE = 1 THEN
        IF u.standby THEN 3
        ELSE IF (~dw.UnitDelay2_DSTATE) \/ u.limits THEN 2
        ELSE 1
    ELSE IF dw.UnitDelay_DSTATE = 2 THEN
        IF u.standby /\ dw.UnitDelay2_DSTATE THEN 3
        ELSE IF u.supported /\ dw.UnitDelay2_DSTATE THEN 0
        ELSE 2
    ELSE IF dw.UnitDelay_DSTATE = 3 THEN
        IF u.apfail THEN 2
        ELSE IF ~u.standby THEN 0
        ELSE 3
    ELSE dw.Merge

\* Faulty variant: the Nominal branch tests Unit Delay2 without the negation.
ManagerActions_NominalHealthy(dw, u) ==
    IF dw.UnitDelay_DSTATE = 0 THEN
        IF u.standby THEN 3
        ELSE IF u.supported /\ dw.UnitDelay2_DSTATE THEN 1
        ELSE dw.UnitDelay_DSTATE
    ELSE IF dw.UnitDelay_DSTATE = 1 THEN
        IF u.standby THEN 3
        ELSE IF dw.UnitDelay2_DSTATE THEN 2
        ELSE 1
    ELSE IF dw.UnitDelay_DSTATE = 2 THEN
        IF u.standby /\ dw.UnitDelay2_DSTATE THEN 3
        ELSE IF u.supported /\ dw.UnitDelay2_DSTATE THEN 0
        ELSE 2
    ELSE IF dw.UnitDelay_DSTATE = 3 THEN
        IF u.apfail THEN 2
        ELSE IF ~u.standby THEN 0
        ELSE 3
    ELSE dw.Merge

\* Faulty variant: the Standby branch tests apfail negated.
ManagerActions_StandbyApfail(dw, u) ==
    IF dw.UnitDelay_DSTATE = 0 THEN
        IF u.standby THEN 3
        ELSE IF u.supported /\ dw.UnitDelay2_DSTATE THEN 1
        ELSE dw.UnitDelay_DSTATE
    ELSE IF dw.UnitDelay_DSTATE = 1 THEN
        IF u.standby THEN 3
        ELSE IF ~dw.UnitDelay2_DSTATE THEN 2
        ELSE 1
    ELSE IF dw.UnitDelay_DSTATE = 2 THEN
        IF u.standby /\ dw.UnitDelay2_DSTATE THEN 3
        ELSE IF u.supported /\ dw.UnitDelay2_DSTATE THEN 0
        ELSE 2
    ELSE IF dw.UnitDelay_DSTATE = 3 THEN
        IF ~u.apfail THEN 2
        ELSE IF ~u.standby THEN 0
        ELSE 3
    ELSE dw.Merge

\* Faulty variant: the Maneuver branch tests supported before standby.
ManagerActions_ManeuverOrder(dw, u) ==
    IF dw.UnitDelay_DSTATE = 0 THEN
        IF u.standby THEN 3
        ELSE IF u.supported /\ dw.UnitDelay2_DSTATE THEN 1
        ELSE dw.UnitDelay_DSTATE
    ELSE IF dw.UnitDelay_DSTATE = 1 THEN
        IF u.standby THEN 3
        ELSE IF ~dw.UnitDelay2_DSTATE THEN 2
        ELSE 1
    ELSE IF dw.UnitDelay_DSTATE = 2 THEN
        IF u.supported /\ dw.UnitDelay2_DSTATE THEN 0
        ELSE IF u.standby /\ dw.UnitDelay2_DSTATE THEN 3
        ELSE 2
    ELSE IF dw.UnitDelay_DSTATE = 3 THEN
        IF u.apfail THEN 2
        ELSE IF ~u.standby THEN 0
        ELSE 3
    ELSE dw.Merge

\* Faulty variant: the Nominal branch tests sensor health before standby.
ManagerActions_NominalOrder(dw, u) ==
    IF dw.UnitDelay_DSTATE = 0 THEN
        IF u.standby THEN 3
        ELSE IF u.supported /\ dw.UnitDelay2_DSTATE THEN 1
        ELSE dw.UnitDelay_DSTATE
    ELSE IF dw.UnitDelay_DSTATE = 1 THEN
        IF ~dw.UnitDelay2_DSTATE THEN 2
        ELSE IF u.standby THEN 3
        ELSE 1
    ELSE IF dw.UnitDelay_DSTATE = 2 THEN
        IF u.standby /\ dw.UnitDelay2_DSTATE THEN 3
        ELSE IF u.supported /\ dw.UnitDelay2_DSTATE THEN 0
        ELSE 2
    ELSE IF dw.UnitDelay_DSTATE = 3 THEN
        IF u.apfail THEN 2
        ELSE IF ~u.standby THEN 0
        ELSE 3
    ELSE dw.Merge

\* Faulty variant: the Transition branch tests Unit Delay2 negated.
ManagerActions_TransitionUnhealthy(dw, u) ==
    IF dw.UnitDelay_DSTATE = 0 THEN
        IF u.standby THEN 3
        ELSE IF u.supported /\ ~dw.UnitDelay2_DSTATE THEN 1
        ELSE dw.UnitDelay_DSTATE
    ELSE IF dw.UnitDelay_DSTATE = 1 THEN
        IF u.standby THEN 3
        ELSE IF ~dw.UnitDelay2_DSTATE THEN 2
        ELSE 1
    ELSE IF dw.UnitDelay_DSTATE = 2 THEN
        IF u.standby /\ dw.UnitDelay2_DSTATE THEN 3
        ELSE IF u.supported /\ dw.UnitDelay2_DSTATE THEN 0
        ELSE 2
    ELSE IF dw.UnitDelay_DSTATE = 3 THEN
        IF u.apfail THEN 2
        ELSE IF ~u.standby THEN 0
        ELSE 3
    ELSE dw.Merge

\* Faulty variant: the Maneuver branch writes the Nominal constant on resumed support.
ManagerActions_ManeuverToNominal(dw, u) ==
    IF dw.UnitDelay_DSTATE = 0 THEN
        IF u.standby THEN 3
        ELSE IF u.supported /\ dw.UnitDelay2_DSTATE THEN 1
        ELSE dw.UnitDelay_DSTATE
    ELSE IF dw.UnitDelay_DSTATE = 1 THEN
        IF u.standby THEN 3
        ELSE IF ~dw.UnitDelay2_DSTATE THEN 2
        ELSE 1
    ELSE IF dw.UnitDelay_DSTATE = 2 THEN
        IF u.standby /\ dw.UnitDelay2_DSTATE THEN 3
        ELSE IF u.supported /\ dw.UnitDelay2_DSTATE THEN 1
        ELSE 2
    ELSE IF dw.UnitDelay_DSTATE = 3 THEN
        IF u.apfail THEN 2
        ELSE IF ~u.standby THEN 0
        ELSE 3
    ELSE dw.Merge

\* Faulty variant: the Standby branch tests standby without the negation.
ManagerActions_StandbyStays(dw, u) ==
    IF dw.UnitDelay_DSTATE = 0 THEN
        IF u.standby THEN 3
        ELSE IF u.supported /\ dw.UnitDelay2_DSTATE THEN 1
        ELSE dw.UnitDelay_DSTATE
    ELSE IF dw.UnitDelay_DSTATE = 1 THEN
        IF u.standby THEN 3
        ELSE IF ~dw.UnitDelay2_DSTATE THEN 2
        ELSE 1
    ELSE IF dw.UnitDelay_DSTATE = 2 THEN
        IF u.standby /\ dw.UnitDelay2_DSTATE THEN 3
        ELSE IF u.supported /\ dw.UnitDelay2_DSTATE THEN 0
        ELSE 2
    ELSE IF dw.UnitDelay_DSTATE = 3 THEN
        IF u.apfail THEN 2
        ELSE IF u.standby THEN 0
        ELSE 3
    ELSE dw.Merge

\* Faulty variant: the Maneuver branch releases on supported without testing Unit Delay2.
ManagerActions_ManeuverNoHealth(dw, u) ==
    IF dw.UnitDelay_DSTATE = 0 THEN
        IF u.standby THEN 3
        ELSE IF u.supported /\ dw.UnitDelay2_DSTATE THEN 1
        ELSE dw.UnitDelay_DSTATE
    ELSE IF dw.UnitDelay_DSTATE = 1 THEN
        IF u.standby THEN 3
        ELSE IF ~dw.UnitDelay2_DSTATE THEN 2
        ELSE 1
    ELSE IF dw.UnitDelay_DSTATE = 2 THEN
        IF u.standby /\ dw.UnitDelay2_DSTATE THEN 3
        ELSE IF u.supported THEN 0
        ELSE 2
    ELSE IF dw.UnitDelay_DSTATE = 3 THEN
        IF u.apfail THEN 2
        ELSE IF ~u.standby THEN 0
        ELSE 3
    ELSE dw.Merge

\* Faulty variant: the Transition branch writes the Maneuver constant on supported.
ManagerActions_TransitionToManeuver(dw, u) ==
    IF dw.UnitDelay_DSTATE = 0 THEN
        IF u.standby THEN 3
        ELSE IF u.supported /\ dw.UnitDelay2_DSTATE THEN 2
        ELSE dw.UnitDelay_DSTATE
    ELSE IF dw.UnitDelay_DSTATE = 1 THEN
        IF u.standby THEN 3
        ELSE IF ~dw.UnitDelay2_DSTATE THEN 2
        ELSE 1
    ELSE IF dw.UnitDelay_DSTATE = 2 THEN
        IF u.standby /\ dw.UnitDelay2_DSTATE THEN 3
        ELSE IF u.supported /\ dw.UnitDelay2_DSTATE THEN 0
        ELSE 2
    ELSE IF dw.UnitDelay_DSTATE = 3 THEN
        IF u.apfail THEN 2
        ELSE IF ~u.standby THEN 0
        ELSE 3
    ELSE dw.Merge

\* Faulty variant: the Transition branch joins supported and Unit Delay2 with OR.
ManagerActions_TransitionOr(dw, u) ==
    IF dw.UnitDelay_DSTATE = 0 THEN
        IF u.standby THEN 3
        ELSE IF u.supported \/ dw.UnitDelay2_DSTATE THEN 1
        ELSE dw.UnitDelay_DSTATE
    ELSE IF dw.UnitDelay_DSTATE = 1 THEN
        IF u.standby THEN 3
        ELSE IF ~dw.UnitDelay2_DSTATE THEN 2
        ELSE 1
    ELSE IF dw.UnitDelay_DSTATE = 2 THEN
        IF u.standby /\ dw.UnitDelay2_DSTATE THEN 3
        ELSE IF u.supported /\ dw.UnitDelay2_DSTATE THEN 0
        ELSE 2
    ELSE IF dw.UnitDelay_DSTATE = 3 THEN
        IF u.apfail THEN 2
        ELSE IF ~u.standby THEN 0
        ELSE 3
    ELSE dw.Merge

\* Faulty variant: the ladder has no branch for Unit Delay == 3.0, so Merge is not written there.
ManagerActions_NoStandbyBranch(dw, u) ==
    IF dw.UnitDelay_DSTATE = 0 THEN
        IF u.standby THEN 3
        ELSE IF u.supported /\ dw.UnitDelay2_DSTATE THEN 1
        ELSE dw.UnitDelay_DSTATE
    ELSE IF dw.UnitDelay_DSTATE = 1 THEN
        IF u.standby THEN 3
        ELSE IF ~dw.UnitDelay2_DSTATE THEN 2
        ELSE 1
    ELSE IF dw.UnitDelay_DSTATE = 2 THEN
        IF u.standby /\ dw.UnitDelay2_DSTATE THEN 3
        ELSE IF u.supported /\ dw.UnitDelay2_DSTATE THEN 0
        ELSE 2
    ELSE dw.Merge

\* Faulty variant: the Transition self-loop copies the signal Merge instead of Unit Delay.
ManagerActions_TransitionDrift(dw, u) ==
    IF dw.UnitDelay_DSTATE = 0 THEN
        IF u.standby THEN 3
        ELSE IF u.supported /\ dw.UnitDelay2_DSTATE THEN 1
        ELSE dw.Merge
    ELSE IF dw.UnitDelay_DSTATE = 1 THEN
        IF u.standby THEN 3
        ELSE IF ~dw.UnitDelay2_DSTATE THEN 2
        ELSE 1
    ELSE IF dw.UnitDelay_DSTATE = 2 THEN
        IF u.standby /\ dw.UnitDelay2_DSTATE THEN 3
        ELSE IF u.supported /\ dw.UnitDelay2_DSTATE THEN 0
        ELSE 2
    ELSE IF dw.UnitDelay_DSTATE = 3 THEN
        IF u.apfail THEN 2
        ELSE IF ~u.standby THEN 0
        ELSE 3
    ELSE dw.Merge

\* Faulty variant: Nominal moves to Maneuver only when the autopilot has failed as well.
ManagerActions_NominalNeedsApfail(dw, u) ==
    IF dw.UnitDelay_DSTATE = 0 THEN
        IF u.standby THEN 3
        ELSE IF u.supported /\ dw.UnitDelay2_DSTATE THEN 1
        ELSE dw.UnitDelay_DSTATE
    ELSE IF dw.UnitDelay_DSTATE = 1 THEN
        IF u.standby THEN 3
        ELSE IF ~dw.UnitDelay2_DSTATE /\ u.apfail THEN 2
        ELSE 1
    ELSE IF dw.UnitDelay_DSTATE = 2 THEN
        IF u.standby /\ dw.UnitDelay2_DSTATE THEN 3
        ELSE IF u.supported /\ dw.UnitDelay2_DSTATE THEN 0
        ELSE 2
    ELSE IF dw.UnitDelay_DSTATE = 3 THEN
        IF u.apfail THEN 2
        ELSE IF ~u.standby THEN 0
        ELSE 3
    ELSE dw.Merge

(***************************************************************************)
(* If '<S4>/If': the Manager if-ladder.  The value left in Merge.  When no *)
(* branch matches, Merge keeps the value it had.                           *)
(***************************************************************************)
ManagerActions(dw, u) ==
    IF dw.UnitDelay_DSTATE = 0 THEN
        IF u.standby THEN 3
        ELSE IF u.supported /\ dw.UnitDelay2_DSTATE THEN 1
        ELSE dw.UnitDelay_DSTATE
    ELSE IF dw.UnitDelay_DSTATE = 1 THEN
        IF u.standby THEN 3
        ELSE IF ~dw.UnitDelay2_DSTATE THEN 2
        ELSE 1
    ELSE IF dw.UnitDelay_DSTATE = 2 THEN
        IF u.standby /\ dw.UnitDelay2_DSTATE THEN 3
        ELSE IF u.supported /\ dw.UnitDelay2_DSTATE THEN 0
        ELSE 2
    ELSE IF dw.UnitDelay_DSTATE = 3 THEN
        IF u.apfail THEN 2
        ELSE IF ~u.standby THEN 0
        ELSE 3
    ELSE dw.Merge

(***************************************************************************)
(* Faulty variants of the output ladder.  StandbyPullup raises flag2 in    *)
(* the Standby branch; StaleFlag0 omits the write of Merge_p[0] in the     *)
(* Maneuver and Standby branches.                                          *)
(***************************************************************************)
ManagerOutput_StandbyPullup(merge, merge_p) ==
    IF merge = 0 THEN <<FALSE, TRUE, FALSE>>
    ELSE IF merge = 1 THEN <<TRUE, TRUE, FALSE>>
    ELSE IF merge = 2 THEN <<TRUE, FALSE, TRUE>>
    ELSE IF merge = 3 THEN <<TRUE, FALSE, TRUE>>
    ELSE merge_p

ManagerOutput_StaleFlag0(merge, merge_p) ==
    IF merge = 0 THEN <<FALSE, TRUE, FALSE>>
    ELSE IF merge = 1 THEN <<TRUE, TRUE, FALSE>>
    ELSE IF merge = 2 THEN <<merge_p[1], FALSE, TRUE>>
    ELSE IF merge = 3 THEN <<merge_p[1], FALSE, FALSE>>
    ELSE merge_p

\* Faulty variant: Maneuver reports the "good" flag as set.
ManagerOutput_ManeuverGood(merge, merge_p) ==
    IF merge = 0 THEN <<FALSE, TRUE, FALSE>>
    ELSE IF merge = 1 THEN <<TRUE, TRUE, FALSE>>
    ELSE IF merge = 2 THEN <<TRUE, TRUE, TRUE>>
    ELSE IF merge = 3 THEN <<TRUE, FALSE, FALSE>>
    ELSE merge_p

\* Faulty variant: Transition reports the "good" flag as clear.
ManagerOutput_TransitionNotGood(merge, merge_p) ==
    IF merge = 0 THEN <<FALSE, FALSE, FALSE>>
    ELSE IF merge = 1 THEN <<TRUE, TRUE, FALSE>>
    ELSE IF merge = 2 THEN <<TRUE, FALSE, TRUE>>
    ELSE IF merge = 3 THEN <<TRUE, FALSE, FALSE>>
    ELSE merge_p

(***************************************************************************)
(* If '<S5>/If': the Manager output ladder.  The value left in Merge_p.    *)
(* When no branch matches, Merge_p keeps the values it had.                *)
(***************************************************************************)
ManagerOutput(merge, merge_p) ==
    IF merge = 0 THEN <<FALSE, TRUE, FALSE>>
    ELSE IF merge = 1 THEN <<TRUE, TRUE, FALSE>>
    ELSE IF merge = 2 THEN <<TRUE, FALSE, TRUE>>
    ELSE IF merge = 3 THEN <<TRUE, FALSE, FALSE>>
    ELSE merge_p

(***************************************************************************)
(* Faulty variants of the Sensor ladder.  FaultAnd leaves Fault only when  *)
(* both conditions hold; FaultConst writes the Manager's Standby constant  *)
(* in the Fault self-loop.                                                 *)
(***************************************************************************)
SenActions_FaultAnd(dw, merge_p, u) ==
    IF dw.UnitDelay1_DSTATE = 0 THEN
        IF u.limits THEN 2
        ELSE IF ~merge_p[2] THEN 1
        ELSE dw.UnitDelay1_DSTATE
    ELSE IF dw.UnitDelay1_DSTATE = 1 THEN
        IF merge_p[1] /\ merge_p[2] THEN 0
        ELSE 1
    ELSE IF dw.UnitDelay1_DSTATE = 2 THEN
        IF (~merge_p[2]) /\ (~u.limits) THEN 1
        ELSE 2
    ELSE dw.Merge_g

SenActions_FaultConst(dw, merge_p, u) ==
    IF dw.UnitDelay1_DSTATE = 0 THEN
        IF u.limits THEN 2
        ELSE IF ~merge_p[2] THEN 1
        ELSE dw.UnitDelay1_DSTATE
    ELSE IF dw.UnitDelay1_DSTATE = 1 THEN
        IF merge_p[1] /\ merge_p[2] THEN 0
        ELSE 1
    ELSE IF dw.UnitDelay1_DSTATE = 2 THEN
        IF (~merge_p[2]) \/ (~u.limits) THEN 1
        ELSE 3
    ELSE dw.Merge_g

\* Faulty variant: the Nominal branch tests flag1 before limits.
SenActions_NominalOrder(dw, merge_p, u) ==
    IF dw.UnitDelay1_DSTATE = 0 THEN
        IF ~merge_p[2] THEN 1
        ELSE IF u.limits THEN 2
        ELSE dw.UnitDelay1_DSTATE
    ELSE IF dw.UnitDelay1_DSTATE = 1 THEN
        IF merge_p[1] /\ merge_p[2] THEN 0
        ELSE 1
    ELSE IF dw.UnitDelay1_DSTATE = 2 THEN
        IF (~merge_p[2]) \/ (~u.limits) THEN 1
        ELSE 2
    ELSE dw.Merge_g

\* Faulty variant: the Nominal branch reads Merge_p[0] where Merge_p[1] is meant.
SenActions_NominalFlag0(dw, merge_p, u) ==
    IF dw.UnitDelay1_DSTATE = 0 THEN
        IF u.limits THEN 2
        ELSE IF ~merge_p[1] THEN 1
        ELSE dw.UnitDelay1_DSTATE
    ELSE IF dw.UnitDelay1_DSTATE = 1 THEN
        IF merge_p[1] /\ merge_p[2] THEN 0
        ELSE 1
    ELSE IF dw.UnitDelay1_DSTATE = 2 THEN
        IF (~merge_p[2]) \/ (~u.limits) THEN 1
        ELSE 2
    ELSE dw.Merge_g

\* Faulty variant: the Fault branch writes the Nominal constant when it clears.
SenActions_FaultToNominal(dw, merge_p, u) ==
    IF dw.UnitDelay1_DSTATE = 0 THEN
        IF u.limits THEN 2
        ELSE IF ~merge_p[2] THEN 1
        ELSE dw.UnitDelay1_DSTATE
    ELSE IF dw.UnitDelay1_DSTATE = 1 THEN
        IF merge_p[1] /\ merge_p[2] THEN 0
        ELSE 1
    ELSE IF dw.UnitDelay1_DSTATE = 2 THEN
        IF (~merge_p[2]) \/ (~u.limits) THEN 0
        ELSE 2
    ELSE dw.Merge_g

\* Faulty variant: the Transition branch joins flag0 and flag1 with OR.
SenActions_TransitionOr(dw, merge_p, u) ==
    IF dw.UnitDelay1_DSTATE = 0 THEN
        IF u.limits THEN 2
        ELSE IF ~merge_p[2] THEN 1
        ELSE dw.UnitDelay1_DSTATE
    ELSE IF dw.UnitDelay1_DSTATE = 1 THEN
        IF merge_p[1] \/ merge_p[2] THEN 0
        ELSE 1
    ELSE IF dw.UnitDelay1_DSTATE = 2 THEN
        IF (~merge_p[2]) \/ (~u.limits) THEN 1
        ELSE 2
    ELSE dw.Merge_g

\* Faulty variant: the Fault branch clears on limits alone.
SenActions_FaultLimitsOnly(dw, merge_p, u) ==
    IF dw.UnitDelay1_DSTATE = 0 THEN
        IF u.limits THEN 2
        ELSE IF ~merge_p[2] THEN 1
        ELSE dw.UnitDelay1_DSTATE
    ELSE IF dw.UnitDelay1_DSTATE = 1 THEN
        IF merge_p[1] /\ merge_p[2] THEN 0
        ELSE 1
    ELSE IF dw.UnitDelay1_DSTATE = 2 THEN
        IF ~u.limits THEN 1
        ELSE 2
    ELSE dw.Merge_g

\* Faulty variant: the ladder has no branch for Unit Delay1 == 2.0, so Merge_g is not written there.
SenActions_NoFaultBranch(dw, merge_p, u) ==
    IF dw.UnitDelay1_DSTATE = 0 THEN
        IF u.limits THEN 2
        ELSE IF ~merge_p[2] THEN 1
        ELSE dw.UnitDelay1_DSTATE
    ELSE IF dw.UnitDelay1_DSTATE = 1 THEN
        IF merge_p[1] /\ merge_p[2] THEN 0
        ELSE 1
    ELSE dw.Merge_g

(***************************************************************************)
(* If '<S14>/If': the Sensor if-ladder.  The value left in Merge_g, given  *)
(* the Merge_p written earlier in the same call.                           *)
(***************************************************************************)
SenActions(dw, merge_p, u) ==
    IF dw.UnitDelay1_DSTATE = 0 THEN
        IF u.limits THEN 2
        ELSE IF ~merge_p[2] THEN 1
        ELSE dw.UnitDelay1_DSTATE
    ELSE IF dw.UnitDelay1_DSTATE = 1 THEN
        IF merge_p[1] /\ merge_p[2] THEN 0
        ELSE 1
    ELSE IF dw.UnitDelay1_DSTATE = 2 THEN
        IF (~merge_p[2]) \/ (~u.limits) THEN 1
        ELSE 2
    ELSE dw.Merge_g

\* Faulty variant: compares against the Sensor's Transition constant.
SenOutput_WrongConst(merge_g) == ~(merge_g = 1)

\* RelationalOperator '<S15>/Relational Operator5': !(Merge_g == 2.0).
SenOutput(merge_g) == ~(merge_g = 2)

\* Outport '<Root>/pullup': rtY_pullup = rtDW->Merge_p[2].
PullupOut(merge_p) == merge_p[3]

(***************************************************************************)
(* Faulty variant of the step: the Sensor ladder reads the status flags of *)
(* the Manager state stored by the previous cycle.                         *)
(***************************************************************************)
fsm_12B_step_OldFlags(dw, u) ==
    LET merge == ManagerActions(dw, u)
        merge_p == ManagerOutput(merge, dw.Merge_p)
        merge_g == SenActions(dw, ManagerOutput(dw.UnitDelay_DSTATE, dw.Merge_p), u)
    IN  [Merge |-> merge,
         Merge_g |-> merge_g,
         UnitDelay_DSTATE |-> merge,
         UnitDelay1_DSTATE |-> merge_g,
         Merge_p |-> merge_p,
         UnitDelay2_DSTATE |-> SenOutput(merge_g)]

(***************************************************************************)
(* fsm_12B_step: the DW record when the call returns.                      *)
(***************************************************************************)
fsm_12B_step(dw, u) ==
    LET merge == ManagerActions(dw, u)
        merge_p == ManagerOutput(merge, dw.Merge_p)
        merge_g == SenActions(dw, merge_p, u)
    IN  [Merge |-> merge,
         Merge_g |-> merge_g,
         UnitDelay_DSTATE |-> merge,
         UnitDelay1_DSTATE |-> merge_g,
         Merge_p |-> merge_p,
         UnitDelay2_DSTATE |-> SenOutput(merge_g)]

\* The value the parameter rtY_pullup holds when fsm_12B_step returns.
StepPullup(dw, u) == PullupOut(fsm_12B_step(dw, u).Merge_p)

\* Faulty variant: the initial condition of Unit Delay2 is not set.
fsm_12B_initialize_Unset(dw) == dw

\* fsm_12B_initialize: InitializeConditions for Unit Delay2.
fsm_12B_initialize(dw) == [dw EXCEPT !.UnitDelay2_DSTATE = TRUE]

(***************************************************************************)
(* The frame validator of src/example_as.  A frame is 19 bytes: bytes 0    *)
(* and 1 are the header 0xAC 0x12, byte 17 the frame count, byte 18 the    *)
(* checksum.  C index i of the buffer is index i + 1 of the sequence.      *)
(***************************************************************************)
FRAME_LEN == 19

HEAD0 == 172

HEAD1 == 18

INT32_MAX == 2147483647

INT32_MIN == -INT32_MAX - 1

\* Number of calls of Fg333saCheckFun explored.
MaxCalls == 2

FrameOf(h0, h1, f, c) == <<h0, h1>> \o [i \in 1..15 |-> 0] \o <<f, c>>

\* Sample frames: good and bad header, two frame counts, one checksum byte.
Frames == {FrameOf(h0, HEAD1, f, 191) : h0 \in {HEAD0, 0}, f \in {0, 1}}

\* Values of rdLen: the frame length and one other length.
Lens == {FRAME_LEN, FRAME_LEN + 1}

\* CheckSumAdd08 is external to the sources: its uint8_t result is a free
\* choice, sampled so that it can match the checksum byte and miss it.
ChkValues == {0, 191}

\* Sample values of the int32_t counters the caller hands in.
CounterValues == {0, 3, INT32_MAX}

OtherCounterValues == {3, INT32_MAX}

\* x++ on an int32_t: the sum when it fits; at INT32_MAX the signed overflow
\* is undefined, the build may leave any int32_t value (sampled, with the
\* wrapped value INT32_MIN among the samples).
Inc32(x) ==
    IF x < INT32_MAX THEN {x + 1}
    ELSE {INT32_MIN, 0, INT32_MAX}

\* "cnt++; total++" on the fields named c and t.
Bump(is, c, t) ==
    {[is EXCEPT ![c] = x, ![t] = y] : x \in Inc32(is[c]), y \in Inc32(is[t])}

\* Fg333saCheckFun(is) with chksum the value CheckSumAdd08 returns: the set
\* of structures the call can leave behind.
Fg333saCheckFun(is, chksum) ==
    LET s0 == [is EXCEPT !.bComSuc = 0] IN
    IF s0.rdLen = 19 THEN
        LET s1 == [s0 EXCEPT !.cntLenRd = 0] IN
        IF s1.buffer[18] # s1.frm THEN
            LET s2 == [s1 EXCEPT !.cntUpdata = 0, !.frm = s1.buffer[18]] IN
            IF s2.buffer[1] = 172 /\ s2.buffer[2] = 18 THEN
                LET s3 == [s2 EXCEPT !.cntHead = 0] IN
                IF chksum = s3.buffer[19]
                THEN {[s3 EXCEPT !.cntCheck = 0, !.bComSuc = 1]}
                ELSE Bump(s3, "cntCheck", "totalCheck")
            ELSE Bump(s2, "cntHead", "totalHead")
        ELSE Bump(s1, "cntUpdata", "totalUpdata")
    ELSE Bump(s0, "cntLenRd", "totalLenRd")

\* The structure while the validator is not in use.
NoFg ==
    [buffer |-> FrameOf(0, 0, 0, 0), rdLen |-> 0, frm |-> 0, bComSuc |-> 0,
     cntLenRd |-> 0, cntHead |-> 0, cntCheck |-> 0, cntUpdata |-> 0,
     totalLenRd |-> 0, totalHead |-> 0, totalCheck |-> 0, totalUpdata |-> 0]

(***************************************************************************)
(* The program: main zeroes nothing itself (static storage), calls         *)
(* fsm_12B_initialize once, then rt_OneStep per cycle.                     *)
(***************************************************************************)
Init ==
    /\ rtDW = ZeroDW
    /\ rtU = ZeroU
    /\ pre = ZeroDW
    /\ pullup = FALSE
    /\ rtY_pullup = FALSE
    /\ pc = "start"
    /\ pIp = NoFg
    /\ pIpOld = NoFg
    /\ fgCalls = 0

Initialize ==
    /\ pc = "start"
    /\ rtDW' = fsm_12B_initialize(rtDW)
    /\ pre' = fsm_12B_initialize(rtDW)
    /\ pc' = "ready"
    /\ UNCHANGED <<rtU, pullup, rtY_pullup>>
    /\ UNCHANGED fgVars

\* rt_OneStep: the harness samples the inputs and its own rtY_pullup, then
\* calls fsm_12B_step, which receives rtY_pullup by value.
Step ==
    /\ pc \in {"ready", "stepped"}
    /\ \E u \in Inputs, y \in BOOLEAN :
          /\ rtU' = u
          /\ pre' = rtDW
          /\ rtDW' = fsm_12B_step(rtDW, u)
          /\ pullup' = StepPullup(rtDW, u)
          /\ rtY_pullup' = y
    /\ pc' = "stepped"
    /\ UNCHANGED fgVars

Next == Initialize \/ Step

Spec == Init /\ [][Next]_vars

(***************************************************************************)
(* The program run forever: main initializes the model, and rt_OneStep is   *)
(* attached to a periodic clock, so a cycle is taken again and again.       *)
(***************************************************************************)
SpecLive == Init /\ [][Next]_vars /\ WF_vars(Initialize) /\ WF_vars(Step)

(***************************************************************************)
(* fsm_12B_step as a function of its arguments: the DW record is drawn     *)
(* from every value of its enumerations, reachable from Init or not.       *)
(***************************************************************************)
AnyDW ==
    [Merge : ManagerStates, Merge_g : SensorStates,
     UnitDelay_DSTATE : ManagerStates, UnitDelay1_DSTATE : SensorStates,
     Merge_p : Flags, UnitDelay2_DSTATE : BOOLEAN]

InitAny ==
    /\ rtDW \in AnyDW
    /\ rtU = ZeroU
    /\ pre = rtDW
    /\ pullup = FALSE
    /\ rtY_pullup = FALSE
    /\ pc = "ready"
    /\ pIp = NoFg
    /\ pIpOld = NoFg
    /\ fgCalls = 0

NextAny == Step

SpecAny == InitAny /\ [][NextAny]_vars

(***************************************************************************)
(* The frame validator's main: pIp and buffer are automatic variables that  *)
(* are never initialized, so every field starts with an arbitrary value of  *)
(* its type.  The first call validates what the structure holds; before a   *)
(* later call the caller stores a new frame and its length.                 *)
(***************************************************************************)
AnyFg ==
    [buffer : Frames, rdLen : Lens, frm : {0, 1}, bComSuc : {0, 1},
     cntLenRd : CounterValues, totalLenRd : CounterValues,
     cntHead : OtherCounterValues, cntCheck : OtherCounterValues,
     cntUpdata : OtherCounterValues, totalHead : OtherCounterValues,
     totalCheck : OtherCounterValues, totalUpdata : OtherCounterValues]

InitFg ==
    /\ rtDW = ZeroDW
    /\ rtU = ZeroU
    /\ pre = ZeroDW
    /\ pullup = FALSE
    /\ rtY_pullup = FALSE
    /\ pc = "start"
    /\ pIp \in AnyFg
    /\ pIpOld = pIp
    /\ fgCalls = 0

FgCheck ==
    /\ fgCalls < MaxCalls
    /\ \E b \in Frames, n \in Lens, chksum \in ChkValues :
          LET is == IF fgCalls = 0 THEN pIp
                    ELSE [pIp EXCEPT !.buffer = b, !.rdLen = n]
          IN  /\ pIpOld' = is
              /\ pIp' \in Fg333saCheckFun(is, chksum)
    /\ fgCalls' = fgCalls + 1
    /\ UNCHANGED fsmVars

NextFg == FgCheck

SpecFg == InitFg /\ [][NextFg]_vars

(***************************************************************************)
(* Reference tables of the design: the Manager and Sensor transition       *)
(* tables in precedence order, and the status-flag table.                  *)
(***************************************************************************)
ManagerRef(s, healthy, standby, apfail, supported) ==
    CASE s = MGR_TRANSITION ->
             IF standby THEN MGR_STANDBY
             ELSE IF supported /\ healthy THEN MGR_NOMINAL
             ELSE MGR_TRANSITION
      [] s = MGR_NOMINAL ->
             IF standby THEN MGR_STANDBY
             ELSE IF ~healthy THEN MGR_MANEUVER
             ELSE MGR_NOMINAL
      [] s = MGR_MANEUVER ->
             IF standby /\ healthy THEN MGR_STANDBY
             ELSE IF supported /\ healthy THEN MGR_TRANSITION
             ELSE MGR_MANEUVER
      [] s = MGR_STANDBY ->
             IF apfail THEN MGR_MANEUVER
             ELSE IF ~standby THEN MGR_TRANSITION
             ELSE MGR_STANDBY

SensorRef(s, flag0, flag1, limits) ==
    CASE s = SEN_NOMINAL ->
             IF limits THEN SEN_FAULT
             ELSE IF ~flag1 THEN SEN_TRANSITION
             ELSE SEN_NOMINAL
      [] s = SEN_TRANSITION ->
             IF flag0 /\ flag1 THEN SEN_NOMINAL ELSE SEN_TRANSITION
      [] s = SEN_FAULT ->
             IF (~flag1) \/ (~limits) THEN SEN_TRANSITION ELSE SEN_FAULT

MapRef(s) ==
    CASE s = MGR_TRANSITION -> <<FALSE, TRUE, FALSE>>
      [] s = MGR_NOMINAL -> <<TRUE, TRUE, FALSE>>
      [] s = MGR_MANEUVER -> <<TRUE, FALSE, TRUE>>
      [] s = MGR_STANDBY -> <<TRUE, FALSE, FALSE>>

\* C1: after every step from a reachable state, the pullup value computed by
\* that call is true exactly when the Manager state it committed is MANEUVER.
C1_PullupIffManeuver ==
    pc = "stepped" => (pullup <=> rtDW.UnitDelay_DSTATE = MGR_MANEUVER)

C1_Witness ==
    /\ pc = "stepped"
    /\ pullup
    /\ rtDW.UnitDelay_DSTATE = MGR_MANEUVER
    /\ pre.UnitDelay_DSTATE # MGR_MANEUVER

\* C2: Requirement 1 as the harness asserts it: a step with limits, not
\* standby, supported and not apfail ends with pullup true.
C2_Requirement1 ==
    (pc = "stepped" /\ rtU.limits /\ ~rtU.standby /\ rtU.supported /\ ~rtU.apfail)
        => pullup

\* C3: the Manager state committed by a step is the reference table applied
\* to the previous Manager state, the previous SensorHealthy and the inputs,
\* for every value of these.
C3_ManagerTable ==
    pc = "stepped" =>
        rtDW.UnitDelay_DSTATE =
            ManagerRef(pre.UnitDelay_DSTATE, pre.UnitDelay2_DSTATE,
                       rtU.standby, rtU.apfail, rtU.supported)

C3_Witness ==
    /\ pc = "stepped"
    /\ pre.UnitDelay_DSTATE = MGR_STANDBY
    /\ rtU.apfail /\ rtU.standby
    /\ rtDW.UnitDelay_DSTATE = MGR_MANEUVER

\* C4: the Sensor state committed by a step is the reference table applied
\* to the previous Sensor state, flag0 and flag1 of this step and limits;
\* and the Sensor ladder agrees with the table on every value of the flags.
C4_SensorTable ==
    /\ pc = "stepped" =>
          rtDW.UnitDelay1_DSTATE =
              SensorRef(pre.UnitDelay1_DSTATE, rtDW.Merge_p[1], rtDW.Merge_p[2],
                        rtU.limits)
    /\ \A s \in SensorStates, mp \in Flags, l \in BOOLEAN :
          SenActions([UnitDelay1_DSTATE |-> s, Merge_g |-> s], mp, [limits |-> l])
              = SensorRef(s, mp[1], mp[2], l)

C4_Witness ==
    /\ pc = "stepped"
    /\ pre.UnitDelay1_DSTATE = SEN_FAULT
    /\ rtU.limits
    /\ ~rtDW.Merge_p[2]
    /\ rtDW.UnitDelay1_DSTATE = SEN_TRANSITION

\* C5: the status flags left by a step are the table entry of the Manager
\* state committed by that step, whatever the flags held before the call.
C5_FlagsFromManager ==
    pc = "stepped" => rtDW.Merge_p = MapRef(rtDW.UnitDelay_DSTATE)

C5_Witness ==
    /\ pc = "stepped"
    /\ pre.Merge_p = <<FALSE, FALSE, TRUE>>
    /\ rtDW.UnitDelay_DSTATE = MGR_STANDBY
    /\ rtDW.Merge_p = <<TRUE, FALSE, FALSE>>

\* C6: in every state reachable from the initial state, ManagerState is one
\* of 0..3 and SensorState one of 0..2, and after a step each ladder has
\* written its signal (the committed states are the signals of this call).
C6_StatesInRange ==
    /\ rtDW.UnitDelay_DSTATE \in ManagerStates
    /\ rtDW.UnitDelay1_DSTATE \in SensorStates
    /\ pc = "stepped" =>
          /\ rtDW.Merge \in ManagerStates
          /\ rtDW.Merge_g \in SensorStates
          /\ rtDW.UnitDelay_DSTATE = rtDW.Merge
          /\ rtDW.UnitDelay1_DSTATE = rtDW.Merge_g

C6_Witness ==
    /\ pc = "stepped"
    /\ pre.UnitDelay_DSTATE = MGR_NOMINAL
    /\ pre.UnitDelay1_DSTATE = SEN_NOMINAL
    /\ rtDW.UnitDelay1_DSTATE = SEN_FAULT
    /\ rtDW.UnitDelay_DSTATE = MGR_STANDBY

\* C7: after fsm_12B_initialize on zeroed storage and before any step the
\* persistent state is TRANSITION, NOMINAL, SensorHealthy = TRUE.
C7_InitialState ==
    pc = "ready" =>
        /\ rtDW.UnitDelay_DSTATE = MGR_TRANSITION
        /\ rtDW.UnitDelay1_DSTATE = SEN_NOMINAL
        /\ rtDW.UnitDelay2_DSTATE = TRUE

C7_Witness ==
    /\ pc = "ready"
    /\ rtDW.UnitDelay2_DSTATE
    /\ rtDW.UnitDelay_DSTATE = MGR_TRANSITION

\* C8: once initialized, and after every step, the persisted SensorHealthy
\* equals (persisted SensorState # FAULT).
C8_HealthyIffNotFault ==
    pc # "start" =>
        (rtDW.UnitDelay2_DSTATE <=> rtDW.UnitDelay1_DSTATE # SEN_FAULT)

C8_Witness ==
    /\ pc = "stepped"
    /\ rtDW.UnitDelay1_DSTATE = SEN_FAULT
    /\ ~rtDW.UnitDelay2_DSTATE

\* C9: a step from the same persistent state with the same standby, apfail
\* and supported but the other value of limits commits the same Manager
\* state and computes the same pullup.
C9_LimitsLag ==
    pc = "stepped" =>
        LET other == [rtU EXCEPT !.limits = ~rtU.limits]
        IN  /\ fsm_12B_step(pre, other).UnitDelay_DSTATE = rtDW.UnitDelay_DSTATE
            /\ StepPullup(pre, other) = pullup

C9_Witness ==
    /\ pc = "stepped"
    /\ pre.UnitDelay_DSTATE = MGR_NOMINAL
    /\ pre.UnitDelay1_DSTATE = SEN_NOMINAL
    /\ pre.UnitDelay2_DSTATE
    /\ rtU.limits /\ ~rtU.standby
    /\ rtDW.UnitDelay1_DSTATE = SEN_FAULT
    /\ rtDW.UnitDelay_DSTATE = MGR_NOMINAL
    /\ ~pullup

\* C10: the Sensor state committed by a step is the Sensor table applied to
\* the previous Sensor state, flag0 and flag1 of the table entry of the
\* Manager state committed by the same step, and limits.
C10_SensorUsesNewFlags ==
    pc = "stepped" =>
        rtDW.UnitDelay1_DSTATE =
            SensorRef(pre.UnitDelay1_DSTATE,
                      MapRef(rtDW.UnitDelay_DSTATE)[1],
                      MapRef(rtDW.UnitDelay_DSTATE)[2],
                      rtU.limits)

C10_Witness ==
    /\ pc = "stepped"
    /\ pre.UnitDelay_DSTATE = MGR_TRANSITION
    /\ rtDW.UnitDelay_DSTATE = MGR_STANDBY
    /\ pre.UnitDelay1_DSTATE = SEN_NOMINAL
    /\ ~rtU.limits
    /\ rtDW.UnitDelay1_DSTATE = SEN_TRANSITION

(***************************************************************************)
(* The requirements of the harness (ert_main.c, Requirements 2 .. 13),     *)
(* stated on the persistent state before the step, the inputs of the step  *)
(* and the state it commits.                                               *)
(***************************************************************************)

\* C11 as stated (Requirement 4): from NOMINAL with SensorHealthy false the
\* step commits MANEUVER with pullup true, for every value of the inputs.
C11_Requirement4 ==
    (pc = "stepped" /\ pre.UnitDelay_DSTATE = MGR_NOMINAL /\ ~pre.UnitDelay2_DSTATE)
        => (rtDW.UnitDelay_DSTATE = MGR_MANEUVER /\ pullup)

\* C11 amended: from NOMINAL with SensorHealthy false and standby false the
\* step commits MANEUVER with pullup true, for every apfail, supported, limits.
C11_Requirement4NotStandby ==
    (/\ pc = "stepped"
     /\ pre.UnitDelay_DSTATE = MGR_NOMINAL
     /\ ~pre.UnitDelay2_DSTATE
     /\ ~rtU.standby)
        => (rtDW.UnitDelay_DSTATE = MGR_MANEUVER /\ pullup)

C11_Witness ==
    /\ pc = "stepped"
    /\ pre.UnitDelay_DSTATE = MGR_NOMINAL
    /\ ~pre.UnitDelay2_DSTATE
    /\ ~rtU.standby
    /\ rtDW.UnitDelay_DSTATE = MGR_MANEUVER
    /\ pullup

\* C12 (Requirement 9): from STANDBY with apfail true the step commits
\* MANEUVER with pullup true, whatever standby, supported, limits, the
\* Sensor state and SensorHealthy are.
C12_Requirement9 ==
    (pc = "stepped" /\ pre.UnitDelay_DSTATE = MGR_STANDBY /\ rtU.apfail)
        => (rtDW.UnitDelay_DSTATE = MGR_MANEUVER /\ pullup)

C12_Witness ==
    /\ pc = "stepped"
    /\ pre.UnitDelay_DSTATE = MGR_STANDBY
    /\ pre.UnitDelay1_DSTATE = SEN_FAULT
    /\ ~pre.UnitDelay2_DSTATE
    /\ rtU.apfail /\ rtU.standby /\ ~rtU.supported /\ rtU.limits
    /\ rtDW.UnitDelay_DSTATE = MGR_MANEUVER
    /\ pullup

\* C13 (Requirement 6): from MANEUVER with SensorHealthy true and standby
\* true the step commits STANDBY with pullup false, whatever apfail,
\* supported and limits are.
C13_Requirement6 ==
    (/\ pc = "stepped"
     /\ pre.UnitDelay_DSTATE = MGR_MANEUVER
     /\ pre.UnitDelay2_DSTATE
     /\ rtU.standby)
        => (rtDW.UnitDelay_DSTATE = MGR_STANDBY /\ ~pullup)

C13_Witness ==
    /\ pc = "stepped"
    /\ pre.UnitDelay_DSTATE = MGR_MANEUVER
    /\ pre.UnitDelay2_DSTATE
    /\ rtU.standby /\ rtU.supported /\ rtU.apfail /\ rtU.limits
    /\ rtDW.UnitDelay_DSTATE = MGR_STANDBY
    /\ ~pullup

\* C14 (Requirements 2 and 5): from TRANSITION or NOMINAL with standby true
\* the step commits STANDBY, whatever SensorHealthy, apfail, supported and
\* limits are.
C14_Requirements2And5 ==
    (/\ pc = "stepped"
     /\ pre.UnitDelay_DSTATE \in {MGR_TRANSITION, MGR_NOMINAL}
     /\ rtU.standby)
        => rtDW.UnitDelay_DSTATE = MGR_STANDBY

C14_Witness ==
    /\ pc = "stepped"
    /\ pre.UnitDelay_DSTATE = MGR_NOMINAL
    /\ ~pre.UnitDelay2_DSTATE
    /\ rtU.standby
    /\ rtDW.UnitDelay_DSTATE = MGR_STANDBY

\* C15 as stated (Requirement 3): from TRANSITION with supported true and
\* SensorHealthy true the step commits NOMINAL.
C15_Requirement3 ==
    (/\ pc = "stepped"
     /\ pre.UnitDelay_DSTATE = MGR_TRANSITION
     /\ rtU.supported
     /\ pre.UnitDelay2_DSTATE)
        => rtDW.UnitDelay_DSTATE = MGR_NOMINAL

\* C15 amended: from TRANSITION with supported true, SensorHealthy true and
\* standby false the step commits NOMINAL.
C15_Requirement3NotStandby ==
    (/\ pc = "stepped"
     /\ pre.UnitDelay_DSTATE = MGR_TRANSITION
     /\ rtU.supported
     /\ pre.UnitDelay2_DSTATE
     /\ ~rtU.standby)
        => rtDW.UnitDelay_DSTATE = MGR_NOMINAL

C15_Witness ==
    /\ pc = "stepped"
    /\ pre.UnitDelay_DSTATE = MGR_TRANSITION
    /\ rtU.supported
    /\ pre.UnitDelay2_DSTATE
    /\ ~rtU.standby
    /\ rtDW.UnitDelay_DSTATE = MGR_NOMINAL

\* C16 as stated (Requirement 7): from MANEUVER with supported true and
\* SensorHealthy true the step commits TRANSITION.
C16_Requirement7 ==
    (/\ pc = "stepped"
     /\ pre.UnitDelay_DSTATE = MGR_MANEUVER
     /\ rtU.supported
     /\ pre.UnitDelay2_DSTATE)
        => rtDW.UnitDelay_DSTATE = MGR_TRANSITION

\* C16 amended: from MANEUVER with supported true, SensorHealthy true and
\* standby false the step commits TRANSITION.
C16_Requirement7NotStandby ==
    (/\ pc = "stepped"
     /\ pre.UnitDelay_DSTATE = MGR_MANEUVER
     /\ rtU.supported
     /\ pre.UnitDelay2_DSTATE
     /\ ~rtU.standby)
        => rtDW.UnitDelay_DSTATE = MGR_TRANSITION

C16_Witness ==
    /\ pc = "stepped"
    /\ pre.UnitDelay_DSTATE = MGR_MANEUVER
    /\ rtU.supported
    /\ pre.UnitDelay2_DSTATE
    /\ ~rtU.standby
    /\ rtDW.UnitDelay_DSTATE = MGR_TRANSITION

\* C17 as stated (Requirement 8): from STANDBY with standby false the step
\* commits TRANSITION.
C17_Requirement8 ==
    (pc = "stepped" /\ pre.UnitDelay_DSTATE = MGR_STANDBY /\ ~rtU.standby)
        => rtDW.UnitDelay_DSTATE = MGR_TRANSITION

\* C17 amended: from STANDBY with standby false and apfail false the step
\* commits TRANSITION.
C17_Requirement8NoApfail ==
    (/\ pc = "stepped"
     /\ pre.UnitDelay_DSTATE = MGR_STANDBY
     /\ ~rtU.standby
     /\ ~rtU.apfail)
        => rtDW.UnitDelay_DSTATE = MGR_TRANSITION

C17_Witness ==
    /\ pc = "stepped"
    /\ pre.UnitDelay_DSTATE = MGR_STANDBY
    /\ ~rtU.standby
    /\ ~rtU.apfail
    /\ rtDW.UnitDelay_DSTATE = MGR_TRANSITION

\* C18 (Requirement 10): from Sensor NOMINAL with limits true the step
\* commits Sensor FAULT and SensorHealthy false, whatever the Manager state
\* and the other inputs are.
C18_Requirement10 ==
    (pc = "stepped" /\ pre.UnitDelay1_DSTATE = SEN_NOMINAL /\ rtU.limits)
        => (rtDW.UnitDelay1_DSTATE = SEN_FAULT /\ ~rtDW.UnitDelay2_DSTATE)

C18_Witness ==
    /\ pc = "stepped"
    /\ pre.UnitDelay1_DSTATE = SEN_NOMINAL
    /\ pre.UnitDelay2_DSTATE
    /\ rtU.limits
    /\ rtDW.UnitDelay_DSTATE = MGR_STANDBY
    /\ rtDW.UnitDelay1_DSTATE = SEN_FAULT
    /\ ~rtDW.UnitDelay2_DSTATE

\* C19 as stated (Requirement 11): from Sensor NOMINAL, when flag1 of this
\* step's status flags is false, the step commits Sensor TRANSITION.
C19_Requirement11 ==
    (pc = "stepped" /\ pre.UnitDelay1_DSTATE = SEN_NOMINAL /\ ~rtDW.Merge_p[2])
        => rtDW.UnitDelay1_DSTATE = SEN_TRANSITION

\* C19 amended: from Sensor NOMINAL, when flag1 of this step's status flags
\* is false and limits is false, the step commits Sensor TRANSITION.
C19_Requirement11NoLimits ==
    (/\ pc = "stepped"
     /\ pre.UnitDelay1_DSTATE = SEN_NOMINAL
     /\ ~rtDW.Merge_p[2]
     /\ ~rtU.limits)
        => rtDW.UnitDelay1_DSTATE = SEN_TRANSITION

C19_Witness ==
    /\ pc = "stepped"
    /\ pre.UnitDelay1_DSTATE = SEN_NOMINAL
    /\ rtDW.UnitDelay_DSTATE = MGR_STANDBY
    /\ ~rtDW.Merge_p[2]
    /\ ~rtU.limits
    /\ rtDW.UnitDelay1_DSTATE = SEN_TRANSITION

\* C20 (Requirement 12): from Sensor FAULT, when flag1 of this step's status
\* flags is false and limits is false, the step commits Sensor TRANSITION.
C20_Requirement12 ==
    (/\ pc = "stepped"
     /\ pre.UnitDelay1_DSTATE = SEN_FAULT
     /\ ~rtDW.Merge_p[2]
     /\ ~rtU.limits)
        => rtDW.UnitDelay1_DSTATE = SEN_TRANSITION

C20_Witness ==
    /\ pc = "stepped"
    /\ pre.UnitDelay1_DSTATE = SEN_FAULT
    /\ rtDW.UnitDelay_DSTATE \in {MGR_MANEUVER, MGR_STANDBY}
    /\ ~rtDW.Merge_p[2]
    /\ ~rtU.limits
    /\ rtDW.UnitDelay1_DSTATE = SEN_TRANSITION

\* C21 (Requirement 13): from Sensor TRANSITION the step commits Sensor
\* NOMINAL when flag0 and flag1 of this step's status flags are both true,
\* which is when the Manager state committed is NOMINAL; in every other case
\* it commits Sensor TRANSITION.
C21_Requirement13 ==
    (pc = "stepped" /\ pre.UnitDelay1_DSTATE = SEN_TRANSITION) =>
        /\ (rtDW.Merge_p[1] /\ rtDW.Merge_p[2]) <=> rtDW.UnitDelay_DSTATE = MGR_NOMINAL
        /\ rtDW.UnitDelay1_DSTATE =
              IF rtDW.Merge_p[1] /\ rtDW.Merge_p[2] THEN SEN_NOMINAL ELSE SEN_TRANSITION

C21_Witness ==
    /\ pc = "stepped"
    /\ pre.UnitDelay1_DSTATE = SEN_TRANSITION
    /\ rtDW.Merge_p[1] /\ rtDW.Merge_p[2]
    /\ rtDW.UnitDelay_DSTATE = MGR_NOMINAL
    /\ rtDW.UnitDelay1_DSTATE = SEN_NOMINAL

\* C22: from Sensor FAULT the step commits FAULT exactly when flag1 of this
\* step's status flags is true and limits is true; otherwise it commits
\* TRANSITION, never NOMINAL.
C22_FaultClearing ==
    (pc = "stepped" /\ pre.UnitDelay1_DSTATE = SEN_FAULT) =>
        /\ rtDW.UnitDelay1_DSTATE = SEN_FAULT <=> (rtDW.Merge_p[2] /\ rtU.limits)
        /\ (rtDW.Merge_p[2] /\ ~rtU.limits) => rtDW.UnitDelay1_DSTATE = SEN_TRANSITION
        /\ rtDW.UnitDelay1_DSTATE # SEN_FAULT =>
              /\ rtDW.UnitDelay1_DSTATE = SEN_TRANSITION
              /\ (~rtDW.Merge_p[2]) \/ (~rtU.limits)
        /\ rtDW.UnitDelay1_DSTATE # SEN_NOMINAL

C22_Witness ==
    /\ pc = "stepped"
    /\ pre.UnitDelay1_DSTATE = SEN_FAULT
    /\ ~rtDW.Merge_p[2]
    /\ rtU.limits
    /\ rtDW.UnitDelay1_DSTATE = SEN_TRANSITION

\* C23: from MANEUVER the step commits MANEUVER with pullup true exactly when
\* neither (standby and SensorHealthy) nor (supported and SensorHealthy)
\* holds; it leaves MANEUVER only to STANDBY under standby and SensorHealthy
\* or to TRANSITION under supported and SensorHealthy; apfail and limits do
\* not change the Manager state committed.
C23_LatchPersistence ==
    (pc = "stepped" /\ pre.UnitDelay_DSTATE = MGR_MANEUVER) =>
        LET exitStandby == rtU.standby /\ pre.UnitDelay2_DSTATE
            exitSupport == rtU.supported /\ pre.UnitDelay2_DSTATE
        IN  /\ (~exitStandby /\ ~exitSupport) =>
                  (rtDW.UnitDelay_DSTATE = MGR_MANEUVER /\ pullup)
            /\ rtDW.UnitDelay_DSTATE # MGR_MANEUVER =>
                  \/ (rtDW.UnitDelay_DSTATE = MGR_STANDBY /\ exitStandby)
                  \/ (rtDW.UnitDelay_DSTATE = MGR_TRANSITION /\ exitSupport)
            /\ \A a \in BOOLEAN, l \in BOOLEAN :
                  fsm_12B_step(pre, [rtU EXCEPT !.apfail = a, !.limits = l]).UnitDelay_DSTATE
                      = rtDW.UnitDelay_DSTATE

C23_Witness ==
    /\ pc = "stepped"
    /\ pre.UnitDelay_DSTATE = MGR_MANEUVER
    /\ ~pre.UnitDelay2_DSTATE
    /\ rtU.standby /\ rtU.supported
    /\ rtDW.UnitDelay_DSTATE = MGR_MANEUVER
    /\ pullup

\* C24: after fsm_12B_step returns, the caller's variable rtY_pullup holds
\* flag2 of the status flags computed in that call.
C24_CallerSeesPullup ==
    pc = "stepped" => rtY_pullup = rtDW.Merge_p[3]

\* C25: the first step after fsm_12B_initialize computes pullup false for
\* every input, and so does every step from the initial persistent state.
C25_FirstStepNoPullup ==
    (/\ pc = "stepped"
     /\ \/ pre.Merge_p = <<FALSE, FALSE, FALSE>>
        \/ (/\ pre.UnitDelay_DSTATE = MGR_TRANSITION
            /\ pre.UnitDelay1_DSTATE = SEN_NOMINAL
            /\ pre.UnitDelay2_DSTATE))
        => (~pullup /\ rtDW.UnitDelay_DSTATE # MGR_MANEUVER)

C25_Witness ==
    /\ pc = "stepped"
    /\ pre = fsm_12B_initialize(ZeroDW)
    /\ rtU.limits /\ ~rtU.standby /\ rtU.supported /\ ~rtU.apfail
    /\ ~pullup

\* C26: the DW record and the pullup value a step produces do not depend
\* on the signal values Merge, Merge_g and Merge_p left by earlier cycles:
\* the same step taken with any other leftover signals gives the same result.
C26_Purity ==
    pc = "stepped" =>
        \A m \in ManagerStates, g \in SensorStates, mp \in Flags :
            LET other == [pre EXCEPT !.Merge = m, !.Merge_g = g, !.Merge_p = mp]
            IN  /\ fsm_12B_step(other, rtU) = rtDW
                /\ StepPullup(other, rtU) = pullup

C26_Witness ==
    /\ pc = "stepped"
    /\ pre.Merge # pre.UnitDelay_DSTATE
    /\ pre.Merge_g # pre.UnitDelay1_DSTATE
    /\ pre.Merge_p # MapRef(pre.UnitDelay_DSTATE)
    /\ pre.UnitDelay_DSTATE = MGR_STANDBY
    /\ rtDW.UnitDelay_DSTATE = MGR_STANDBY

\* C27: from every ManagerState, SensorState and SensorHealthy and for each
\* of the 16 inputs, a step writes both signals (neither is left as it was),
\* commits a ManagerState in 0..3 and a SensorState in 0..2 and computes a
\* boolean SensorHealthy and pullup.
C27_Exhaustive ==
    /\ pc = "stepped" =>
          /\ rtDW.UnitDelay_DSTATE \in ManagerStates
          /\ rtDW.UnitDelay1_DSTATE \in SensorStates
          /\ rtDW.UnitDelay2_DSTATE \in BOOLEAN
          /\ pullup \in BOOLEAN
    /\ \A u \in Inputs :
          LET unset == [rtDW EXCEPT !.Merge = -1, !.Merge_g = -1]
              r == fsm_12B_step(unset, u)
          IN  /\ r.UnitDelay_DSTATE \in ManagerStates
              /\ r.UnitDelay1_DSTATE \in SensorStates
              /\ r.UnitDelay2_DSTATE \in BOOLEAN
              /\ r.Merge_p \in Flags
              /\ StepPullup(unset, u) \in BOOLEAN

C27_Witness ==
    /\ pc = "stepped"
    /\ pre.UnitDelay_DSTATE = MGR_MANEUVER
    /\ pre.UnitDelay1_DSTATE = SEN_FAULT
    /\ pre.UnitDelay2_DSTATE
    /\ rtDW.UnitDelay_DSTATE = MGR_STANDBY
    /\ rtDW.UnitDelay1_DSTATE = SEN_TRANSITION
    /\ ~pullup

\* The triggering conditions of the two tables: some transition out of the
\* state is enabled.
ManagerTrigger(s, healthy, standby, apfail, supported) ==
    CASE s = MGR_TRANSITION -> standby \/ (supported /\ healthy)
      [] s = MGR_NOMINAL -> standby \/ ~healthy
      [] s = MGR_MANEUVER -> (standby /\ healthy) \/ (supported /\ healthy)
      [] s = MGR_STANDBY -> apfail \/ ~standby

SensorTrigger(s, flag0, flag1, limits) ==
    CASE s = SEN_NOMINAL -> limits \/ ~flag1
      [] s = SEN_TRANSITION -> flag0 /\ flag1
      [] s = SEN_FAULT -> (~flag1) \/ (~limits)

\* C28: when no triggering condition of the Manager state holds, the step
\* commits the Manager state it started from, and likewise for the Sensor.
C28_SelfLoops ==
    pc = "stepped" =>
        /\ ~ManagerTrigger(pre.UnitDelay_DSTATE, pre.UnitDelay2_DSTATE,
                           rtU.standby, rtU.apfail, rtU.supported)
              => rtDW.UnitDelay_DSTATE = pre.UnitDelay_DSTATE
        /\ ~SensorTrigger(pre.UnitDelay1_DSTATE, rtDW.Merge_p[1], rtDW.Merge_p[2],
                          rtU.limits)
              => rtDW.UnitDelay1_DSTATE = pre.UnitDelay1_DSTATE

C28_Witness ==
    /\ pc = "stepped"
    /\ pre.UnitDelay_DSTATE = MGR_TRANSITION
    /\ pre.Merge # MGR_TRANSITION
    /\ ~rtU.standby /\ ~rtU.supported
    /\ rtDW.UnitDelay_DSTATE = MGR_TRANSITION
    /\ pre.UnitDelay1_DSTATE = SEN_NOMINAL
    /\ ~rtU.limits
    /\ rtDW.UnitDelay1_DSTATE = SEN_NOMINAL

\* C29: from TRANSITION with SensorHealthy true and standby false, apfail
\* false, limits true, the step commits NOMINAL when supported is true and
\* TRANSITION when supported is false.
C29_LatchScenario ==
    (/\ pc = "stepped"
     /\ pre.UnitDelay_DSTATE = MGR_TRANSITION
     /\ pre.UnitDelay2_DSTATE
     /\ ~rtU.standby /\ ~rtU.apfail /\ rtU.limits)
        => rtDW.UnitDelay_DSTATE =
              IF rtU.supported THEN MGR_NOMINAL ELSE MGR_TRANSITION

C29_Witness ==
    /\ pc = "stepped"
    /\ pre.UnitDelay_DSTATE = MGR_TRANSITION
    /\ pre.UnitDelay2_DSTATE
    /\ ~rtU.standby /\ ~rtU.apfail /\ rtU.limits /\ ~rtU.supported
    /\ rtDW.UnitDelay_DSTATE = MGR_TRANSITION

\* new = old + 1 over the integers, for int32_t values old and new: the sum
\* is formed only where it is an int32_t, and no int32_t equals INT32_MAX + 1.
PlusOne(new, old) == old < INT32_MAX /\ new = old + 1

\* C30: a call of Fg333saCheckFun with rdLen other than 19 leaves bComSuc at
\* 0, cntLenRd and totalLenRd each at its previous value plus 1, and frm and
\* the head, check and update counters, continuous and total, as they were.
C30_LengthError ==
    (fgCalls > 0 /\ pIpOld.rdLen # FRAME_LEN) =>
        /\ pIp.bComSuc = 0
        /\ PlusOne(pIp.cntLenRd, pIpOld.cntLenRd)
        /\ PlusOne(pIp.totalLenRd, pIpOld.totalLenRd)
        /\ pIp.frm = pIpOld.frm
        /\ pIp.cntHead = pIpOld.cntHead
        /\ pIp.cntCheck = pIpOld.cntCheck
        /\ pIp.cntUpdata = pIpOld.cntUpdata
        /\ pIp.totalHead = pIpOld.totalHead
        /\ pIp.totalCheck = pIpOld.totalCheck
        /\ pIp.totalUpdata = pIpOld.totalUpdata

\* C30 away from the top of the counters' range: with cntLenRd and totalLenRd
\* both below INT32_MAX at the call, the length-error outcome is as stated.
C30_LengthErrorBelowMax ==
    (/\ fgCalls > 0
     /\ pIpOld.rdLen # FRAME_LEN
     /\ pIpOld.cntLenRd < INT32_MAX
     /\ pIpOld.totalLenRd < INT32_MAX) => C30_LengthError

C30_BelowMaxWitness ==
    /\ fgCalls > 0
    /\ pIpOld.rdLen # FRAME_LEN
    /\ pIpOld.cntLenRd = 3
    /\ pIp.cntLenRd = 4
    /\ pIp.totalLenRd = 1

\* C31: in every execution from the initial state in which, from some cycle
\* on, every cycle has limits = true and standby = false, pullup is
\* eventually true.
C31_OverrideLiveness ==
    (<>[](pc = "stepped" /\ rtU.limits /\ ~rtU.standby)) =>
        <>(pc = "stepped" /\ pullup)

\* C32: a step with limits = true and standby = false from Manager NOMINAL,
\* Sensor NOMINAL, healthy leaves the Manager in NOMINAL with pullup false and
\* the Sensor in FAULT; and if the next step has standby = false, that step
\* commits Manager MANEUVER with pullup true, whatever its other inputs.
C32_TwoCycleReaction ==
    [][(/\ pc = "stepped"
        /\ pre.UnitDelay_DSTATE = MGR_NOMINAL
        /\ pre.UnitDelay1_DSTATE = SEN_NOMINAL
        /\ pre.UnitDelay2_DSTATE
        /\ rtU.limits
        /\ ~rtU.standby) =>
           /\ rtDW.UnitDelay_DSTATE = MGR_NOMINAL
           /\ ~pullup
           /\ rtDW.UnitDelay1_DSTATE = SEN_FAULT
           /\ (~rtU'.standby =>
                  rtDW'.UnitDelay_DSTATE = MGR_MANEUVER /\ pullup')]_vars

\* The second step of the reaction has been taken with apfail = false.
C32_Witness ==
    /\ pc = "stepped"
    /\ pre.UnitDelay_DSTATE = MGR_NOMINAL
    /\ pre.UnitDelay1_DSTATE = SEN_FAULT
    /\ ~pre.UnitDelay2_DSTATE
    /\ ~pre.Merge_p[3]
    /\ ~rtU.standby
    /\ ~rtU.apfail
    /\ rtDW.UnitDelay_DSTATE = MGR_MANEUVER
    /\ pullup

\* C33: in the cycle in which the Manager enters MANEUVER (from NOMINAL or
\* STANDBY) the committed Sensor state is TRANSITION and SensorHealthy is
\* true; a cycle that starts in MANEUVER ends in MANEUVER exactly when its
\* standby and supported are both false; and a cycle with supported = true
\* that follows a cycle with pullup true has pullup false.
C33_ManeuverNotHeld ==
    pc = "stepped" =>
        /\ (pre.UnitDelay_DSTATE \in {MGR_NOMINAL, MGR_STANDBY}
            /\ rtDW.UnitDelay_DSTATE = MGR_MANEUVER) =>
               (rtDW.UnitDelay1_DSTATE = SEN_TRANSITION
                /\ rtDW.UnitDelay2_DSTATE)
        /\ (pre.UnitDelay_DSTATE = MGR_MANEUVER) =>
               ((rtDW.UnitDelay_DSTATE = MGR_MANEUVER)
                   <=> (~rtU.standby /\ ~rtU.supported))
        /\ (pre.Merge_p[3] /\ rtU.supported) => ~pullup

\* The Manager entered MANEUVER from NOMINAL while limits was still true.
C33_Witness ==
    /\ pc = "stepped"
    /\ pre.UnitDelay_DSTATE = MGR_NOMINAL
    /\ pre.UnitDelay1_DSTATE = SEN_FAULT
    /\ rtU.limits
    /\ rtDW.UnitDelay_DSTATE = MGR_MANEUVER
    /\ rtDW.UnitDelay1_DSTATE = SEN_TRANSITION
    /\ rtDW.UnitDelay2_DSTATE

\* C34: from Manager TRANSITION, Sensor FAULT, SensorHealthy false, every
\* step with limits = true and standby = false commits the same joint state
\* with pullup false.  That the joint state is reached from the initial
\* state is C34_Witness.
C34_AbsorbingFault ==
    (/\ pc = "stepped"
     /\ pre.UnitDelay_DSTATE = MGR_TRANSITION
     /\ pre.UnitDelay1_DSTATE = SEN_FAULT
     /\ ~pre.UnitDelay2_DSTATE
     /\ rtU.limits
     /\ ~rtU.standby) =>
        /\ rtDW.UnitDelay_DSTATE = MGR_TRANSITION
        /\ rtDW.UnitDelay1_DSTATE = SEN_FAULT
        /\ ~rtDW.UnitDelay2_DSTATE
        /\ ~pullup

\* A step with supported = true and apfail = true was taken from the joint
\* state and left it as it was.
C34_Witness ==
    /\ pc = "stepped"
    /\ pre.UnitDelay_DSTATE = MGR_TRANSITION
    /\ pre.UnitDelay1_DSTATE = SEN_FAULT
    /\ ~pre.UnitDelay2_DSTATE
    /\ rtU.limits
    /\ ~rtU.standby
    /\ rtU.supported
    /\ rtU.apfail
    /\ rtDW.UnitDelay_DSTATE = MGR_TRANSITION
    /\ rtDW.UnitDelay1_DSTATE = SEN_FAULT

=============================================================================
